---- MODULE Spec2Model ----
(***************************************************************************)
(* Model of fib10() in test_os/src/fibonacci.c.                            *)
(*                                                                         *)
(* The function is modelled statement by statement.  pc names the source   *)
(* line of the statement that executes next ("L10" .. "L20"); "Exited" is  *)
(* the state after exit() has been called.  The four locals are declared   *)
(* without initialisers (line 9), so they start with indeterminate values, *)
(* drawn from Junk.  a, b and c are written before they are read; d is     *)
(* read on line 19 and is written only inside the loop body.               *)
(*                                                                         *)
(* target is the literal assigned to c on line 12.  Spec fixes it to the   *)
(* literal of the source (10); SpecGen lets it range over 0..MaxTarget to  *)
(* settle the statements about other target indices.                       *)
(*                                                                         *)
(* iters is an auxiliary counter of completed loop bodies and exits is the *)
(* sequence of arguments exit() has been called with; neither influences   *)
(* the program's variables.  All values stay far below 2^31, so int        *)
(* arithmetic is exact within the bounds used here.                        *)
(***************************************************************************)
EXTENDS Integers, Sequences, FiniteSets, TLC

VARIABLES a, b, c, d, pc, target, iters, exits

vars == <<a, b, c, d, pc, target, iters, exits>>

\* ---- bounds ----
JunkMax == 1
MaxTarget == 12

\* ---- program constant ----
TargetIndex == 10

\* indeterminate values of the uninitialised locals
Junk == (0 - JunkMax)..JunkMax

Targets == 0..MaxTarget

\* ---- helpers ----

\* c & 1 : lowest bit of a two's complement int
ParityFlipped(x) == (x + 1) % 2
Parity(x) == x % 2

\* loop condition  c > 0
LoopCondOffByOne(x) == x >= 0
LoopCond(x) == x > 0

\* ---- state after the declaration on line 9 ----
Locals ==
    /\ a \in Junk
    /\ b \in Junk
    /\ c \in Junk
    /\ d \in Junk
    /\ pc = "L10"
    /\ iters = 0
    /\ exits = << >>

Init ==
    /\ Locals
    /\ target = TargetIndex

InitGen ==
    /\ Locals
    /\ target \in Targets

\* ---- statements ----

\* line 10:  a = 0;
AssignA ==
    /\ pc = "L10"
    /\ a' = 0
    /\ pc' = "L11"
    /\ UNCHANGED <<b, c, d, target, iters, exits>>

\* line 11:  b = 1;
AssignB ==
    /\ pc = "L11"
    /\ b' = 1
    /\ pc' = "L12"
    /\ UNCHANGED <<a, c, d, target, iters, exits>>

\* line 12:  c = 10;
AssignC ==
    /\ pc = "L12"
    /\ c' = target
    /\ pc' = "L14"
    /\ UNCHANGED <<a, b, d, target, iters, exits>>

\* line 14:  c -= 1;
PreDecrement ==
    /\ pc = "L14"
    /\ c' = c - 1
    /\ pc' = "L15"
    /\ UNCHANGED <<a, b, d, target, iters, exits>>

\* line 15:  while (c > 0)
LoopTest ==
    /\ pc = "L15"
    /\ pc' = IF LoopCond(c) THEN "L16" ELSE "L19"
    /\ UNCHANGED <<a, b, c, d, target, iters, exits>>

\* line 16:  (d = c & 1) ? (a += b) : (b += a);
AccumulateSwapped ==
    /\ pc = "L16"
    /\ d' = Parity(c)
    /\ IF d' # 0
          THEN b' = b + a /\ a' = a
          ELSE a' = a + b /\ b' = b
    /\ pc' = "L17"
    /\ UNCHANGED <<c, target, iters, exits>>

Accumulate ==
    /\ pc = "L16"
    /\ d' = Parity(c)
    /\ IF d' # 0
          THEN a' = a + b /\ b' = b
          ELSE b' = b + a /\ a' = a
    /\ pc' = "L17"
    /\ UNCHANGED <<c, target, iters, exits>>

\* line 17:  c -= 1;   (end of the loop body, back to the test)
DecrementByTwo ==
    /\ pc = "L17"
    /\ c' = c - 2
    /\ iters' = iters + 1
    /\ pc' = "L15"
    /\ UNCHANGED <<a, b, d, target, exits>>

Decrement ==
    /\ pc = "L17"
    /\ c' = c - 1
    /\ iters' = iters + 1
    /\ pc' = "L15"
    /\ UNCHANGED <<a, b, d, target, exits>>

\* line 19:  if (d == 0) { a = b; }
Correct ==
    /\ pc = "L19"
    /\ a' = IF d = 0 THEN b ELSE a
    /\ pc' = "L20"
    /\ UNCHANGED <<b, c, d, target, iters, exits>>

\* line 20:  exit(a);   exit() does not return
ExitReturns ==
    /\ pc = "L20"
    /\ exits' = Append(exits, a)
    /\ pc' = "L20"
    /\ UNCHANGED <<a, b, c, d, target, iters>>

Exit ==
    /\ pc = "L20"
    /\ exits' = Append(exits, a)
    /\ pc' = "Exited"
    /\ UNCHANGED <<a, b, c, d, target, iters>>

Next ==
    \/ AssignA
    \/ AssignB
    \/ AssignC
    \/ PreDecrement
    \/ LoopTest
    \/ Accumulate
    \/ Decrement
    \/ Correct
    \/ Exit

\* the source as written: target index 10
Spec == Init /\ [][Next]_vars

\* the same, with the processor always executing the next statement
FairSpec == Spec /\ WF_vars(Next)

\* the same statements with the literal of line 12 as a parameter
SpecGen == InitGen /\ [][Next]_vars

\* ---- the Fibonacci sequence of the glossary: F(0)=0, F(1)=1 ----
RECURSIVE F(_)
F(i) == IF i <= 0 THEN 0 ELSE IF i = 1 THEN 1 ELSE F(i - 1) + F(i - 2)

\* the statements after the loop
PostLoop == {"L19", "L20", "Exited"}

\* number of loop bodies whose accumulate statement has run
Advanced == IF pc = "L17" THEN iters + 1 ELSE iters

\* phases of the state machine of section 4.1, in order
PhaseRank ==
    IF pc \in {"L10", "L11", "L12", "L14"} THEN 0      \* INIT
    ELSE IF pc \in {"L15", "L16", "L17"} THEN 1         \* LOOPING
    ELSE IF pc \in {"L19", "L20"} THEN 2                \* CORRECTING
    ELSE 3                                              \* DONE

\* C1: with target index 10 the value passed to exit() is 55 = F(10).
C1_ExitValueIs55 ==
    /\ F(10) = 55
    /\ pc = "Exited" => exits = <<55>>

C1_Witness == pc = "Exited" /\ target = 10 /\ exits = <<55>> /\ iters = 9

\* C2: every execution terminates; exit() is invoked exactly once, from
\* line 20 after the loop and the correction, and no step follows it.
C2_TerminatesExitOnce ==
    /\ <>(pc = "Exited" /\ Len(exits) = 1)
    /\ [][ /\ Len(exits') <= 1
           /\ (exits' # exits => pc = "L20" /\ pc' = "Exited" /\ c <= 0)
           /\ (pc = "Exited" => UNCHANGED vars)
           /\ (pc' = "Exited" => Len(exits') = 1)
           /\ (pc' # "Exited" => exits' = << >>) ]_vars

C2_Witness == pc = "Exited" /\ Len(exits) = 1 /\ c = 0 /\ iters = 9

\* C3: with the literal of line 12 set to 7, the value passed to exit()
\* is 13 = F(7).
C3_Target7Yields13 ==
    (pc = "Exited" /\ target = 7) => exits = <<13>>

\* C4: once a and b are initialised they are two consecutive Fibonacci
\* terms, {a, b} = {F(k), F(k+1)} after k accumulate steps, and
\* a + b = F(11) = 89 after the loop.
C4_ConsecutivePair ==
    /\ F(11) = 89
    /\ pc \notin {"L10", "L11"} => {a, b} = {F(Advanced), F(Advanced + 1)}
    /\ pc \in PostLoop => iters = 9 /\ a + b = 89

C4_Witness == pc = "L19" /\ iters = 9 /\ a = 55 /\ b = 34

\* C5: the loop body executes exactly 9 times; c is 9 on loop entry, drops
\* by one per completed body, is never negative once assigned, and is 0
\* after the loop.
C5_NineIterations ==
    /\ pc \in {"L15", "L16", "L17"} => c = 9 - iters /\ iters <= 9
    /\ pc \in {"L14"} \cup {"L15", "L16", "L17"} \cup PostLoop => c >= 0
    /\ pc = "L16" => iters < 9
    /\ pc \in PostLoop => c = 0 /\ iters = 9

C5_Witness == pc = "L19" /\ c = 0 /\ iters = 9

\* C6: the phases are passed in the order INIT, LOOPING, CORRECTING, DONE,
\* each step staying in its phase or moving to the next one; LOOPING is
\* left only with c = 0; DONE is terminal.
C6_PhaseOrder ==
    [][ /\ PhaseRank' \in {PhaseRank, PhaseRank + 1}
        /\ (PhaseRank = 1 /\ PhaseRank' = 2 => c = 0)
        /\ (PhaseRank = 2 /\ PhaseRank' = 2 => pc = "L19" /\ pc' = "L20")
        /\ (PhaseRank = 3 => UNCHANGED vars) ]_vars

C6_Witness == pc = "Exited" /\ c = 0 /\ Len(exits) = 1

\* C7: the accumulate statement sets d to the parity of c and updates
\* exactly one accumulator (a if c is odd, b if c is even); the decrement
\* then lowers c by one and leaves a, b and d alone; the loop test changes
\* none of them.
C7_OneAccumulatorPerIteration ==
    [][ /\ pc = "L16" =>
              /\ d' \in {0, 1}
              /\ d' = 1 <=> c % 2 = 1
              /\ c % 2 = 1 => a' = a + b /\ b' = b
              /\ c % 2 = 0 => b' = a + b /\ a' = a
              /\ c' = c
        /\ pc = "L17" => c' = c - 1 /\ UNCHANGED <<a, b, d>>
        /\ pc = "L15" => UNCHANGED <<a, b, c, d>> ]_vars

C7_Witness == pc = "L17" /\ c = 2 /\ d = 0 /\ a = 21 /\ b = 34

\* C8: after k accumulate steps a = F(2*ceil(k/2)) and b = F(2*floor(k/2)+1):
\* a holds even-indexed terms only, b odd-indexed terms only.
C8_EvenOddAccumulators ==
    pc \in {"L15", "L16", "L17"} =>
        /\ a = F(2 * ((Advanced + 1) \div 2))
        /\ b = F(2 * (Advanced \div 2) + 1)

C8_Witness == pc = "L15" /\ iters = 9 /\ a = 55 /\ b = 34

\* C9: with target index 1 the countdown is 0 on loop entry, the body
\* never runs, d is never assigned, and the value passed to exit() is
\* b = 1 when the indeterminate d is 0 and a = 0 otherwise.
C9_Target1ReadsUnsetD ==
    [][ target = 1 =>
          /\ d' = d
          /\ iters' = 0
          /\ pc' # "L16"
          /\ (pc' = "L15" => c' = 0)
          /\ (pc = "L20" => exits' = << IF d = 0 THEN 1 ELSE 0 >>) ]_vars

C9_Witness == target = 1 /\ pc = "Exited" /\ d = 0 /\ exits = <<1>>

\* C10: if the loop body ran at least once, its last run had c = 1, so
\* d = 1 after the loop; the correction leaves a alone and exit() gets the
\* a the loop produced.
C10_CorrectionNeverTaken ==
    [][ /\ (pc = "L17" /\ ~(c' > 0)) => c = 1 /\ d = 1
        /\ (pc = "L19" /\ iters >= 1) => d = 1 /\ a' = a
        /\ (pc = "L20" /\ iters >= 1) => d = 1 /\ exits' = <<a>> ]_vars

C10_Witness == pc = "Exited" /\ iters = 6 /\ d = 1 /\ a = 8 /\ b = 5 /\ exits = <<8>>

====
